---- MODULE Spec2Model ----
(***************************************************************************)
(* gradapp_bot.py: a bot that polls a forum's thread listing, finds the    *)
(* threads newer than the watermark kept in a Telegram channel's           *)
(* description ("last-tid=<digits>"), and broadcasts each of them.         *)
(*                                                                         *)
(* A thread is modelled by its tid.  A description is a sequence of        *)
(* tokens: a token is either a piece of other text or one occurrence of    *)
(* the pattern last-tid=<n>.                                               *)
(***************************************************************************)
EXTENDS Integers, Sequences, FiniteSets, TLC

\* ---------------------------------------------------------------- bounds
\* Longest feed of the specifications with two overlapping invocations or
\* with a feed that grows.
MaxSmallFeed == 3
\* 'ps' of the listing request (20 in the source), kept small here.
PageSize == 2
\* Number of process invocations (runs of main) against the same channel.
MaxRuns == 2

\* depth >= 5 in inline_get_gradapp_threads
MaxDepth == 5

\* The longest feed has one thread on a page beyond the lookback depth.
MaxFeed == MaxDepth * PageSize + 1
\* Distances between the tids of two neighbouring threads of a feed.
Strides == {1, 2}
\* No feed has a tid above MaxTid.
MaxTid == 2 * MaxFeed

\* ------------------------------------------------------------- sequences
Last(s) == s[Len(s)]

NotReversed(s) == s

\* reversed(...) of get_gradapp_threads
Reversed(s) == [i \in 1..Len(s) |-> s[Len(s) + 1 - i]]

Min(a, b) == IF a < b THEN a ELSE b

\* ------------------------------------------------------------ the feed
\* The listing, newest first (order=time_desc): n threads whose tids are
\* stride apart.  With a stride above 1 a watermark can equal a thread's tid
\* or fall strictly between two threads.
FeedOf(n, stride) == [i \in 1..n |-> stride * (n + 1 - i)]

Feeds == {FeedOf(n, stride) : n \in 0..MaxFeed, stride \in Strides}

\* data['threads'] of the request with params ps=PageSize, pg=p.
Page(f, p) ==
    LET lo == (p - 1) * PageSize + 1
        hi == Min(p * PageSize, Len(f))
    IN  IF lo > Len(f) THEN <<>> ELSE SubSeq(f, lo, hi)

\* ------------------------------------------------------ the description
Text == [pat |-> FALSE, tid |-> 0]
Pat(n) == [pat |-> TRUE, tid |-> n]

\* re.findall(r'last-tid=(\d+)', description): the tids of the pattern's
\* occurrences, left to right.
FindAll(text) ==
    LET hits == SelectSeq(text, LAMBDA tok : tok.pat)
    IN  [i \in 1..Len(hits) |-> hits[i].tid]

\* int(tids[0]) if len(tids) > 0 else -1
FirstTidOrSentinel(text) ==
    LET tids == FindAll(text)
    IN  IF Len(tids) > 0 THEN tids[1] ELSE -1

\* re.sub(r'last-tid=(\d+)', f'last-tid={tid}', description): every
\* occurrence of the pattern is rewritten, other text is kept.
Sub(text, tid) ==
    [i \in 1..Len(text) |-> IF text[i].pat THEN Pat(tid) ELSE text[i]]

\* chat.description as the channel holds it: null is None (no description).
Desc(text) == [null |-> FALSE, text |-> text]
NoDesc == [null |-> TRUE, text |-> <<>>]

Descriptions ==
    {NoDesc, Desc(<<>>), Desc(<<Text>>)}
    \cup {Desc(<<Text, Pat(w), Text>>) : w \in 0..(MaxTid + 1)}
    \cup {Desc(<<Pat(w), Pat(0)>>) : w \in 1..(MaxTid + 1)}

\* The watermark a read of the channel would extract.
Watermark(d) == IF d.null THEN -1 ELSE FirstTidOrSentinel(d.text)

\* The watermark w is known and some page among the first n of feed f ends
\* at or below it: a fetch stops there, before the lookback depth.
Within(w, f, n) ==
    /\ w > 0
    /\ \E p \in 1..n : Page(f, p) # <<>> /\ Last(Page(f, p)) <= w

\* ----------------------------------------------------------------- state
VARIABLES
    feed,              \* the upstream listing, newest first
    description,       \* the channel's description (the persisted state)
    run,               \* number of the current process invocation
    pc,                \* position of check_and_push
    chat_description,  \* GradAppBot.chat_description
    last_tid,          \* local of check_and_push
    pg, depth, acc,    \* inline_get_gradapp_threads: arguments, threads of the callers
    threads,           \* result of get_gradapp_threads, oldest first
    idx,               \* position of the for loop in threads
    thread,            \* the loop's current thread, with its details
    delivered,         \* tids of the threads broadcast in this run, in order
    requests,          \* listing pages requested in this run, in order
    written,           \* tids of this run's successful set_last_tid calls
    fault,             \* the collaborator failure this run met
    prev,              \* how the previous run ended: its last pc and fault, the
                       \* tid of its last thread, the number of its deliveries
    start_description, \* the channel's description when this run started
    write_failed,      \* set_last_tid has returned False in this run
    first_within,      \* before the first run the channel held a watermark
                       \* > 0 that lies within the first MaxDepth - 1 pages
    ever,              \* tids broadcast so far, by any run
    dup,               \* some tid has been broadcast more than once
    other              \* the locals of a second invocation that is not running

vars == <<feed, description, run, pc, chat_description, last_tid, pg, depth,
          acc, threads, idx, thread, delivered, requests, written, fault, prev,
          start_description, write_failed, first_within, ever, dup,
          other>>

NoThread == [tid |-> 0, details |-> "none"]
NoPrev == [pc |-> "none", fault |-> "none", tid |-> 0, delivered |-> 0]

Terminal == {"Done", "Aborted", "Failed"}

\* The locals of an invocation that has not started: GradAppBot.__init__ and
\* the entry of check_and_push.
Fresh ==
    [pc |-> "Start", chat_description |-> <<>>, last_tid |-> 0, pg |-> 1,
     depth |-> 1, acc |-> <<>>, threads |-> <<>>, idx |-> 0,
     thread |-> NoThread, delivered |-> <<>>, requests |-> <<>>,
     written |-> <<>>, fault |-> "none", write_failed |-> FALSE]

DeliveredTids == {delivered[i] : i \in 1..Len(delivered)}

Init ==
    /\ feed \in Feeds
    /\ description \in Descriptions
    /\ run = 1
    /\ pc = "Start"
    /\ chat_description = <<>>
    /\ last_tid = 0
    /\ pg = 1
    /\ depth = 1
    /\ acc = <<>>
    /\ threads = <<>>
    /\ idx = 0
    /\ thread = NoThread
    /\ delivered = <<>>
    /\ requests = <<>>
    /\ written = <<>>
    /\ fault = "none"
    /\ prev = NoPrev
    /\ start_description = description
    /\ write_failed = FALSE
    /\ first_within = Within(Watermark(description), feed, MaxDepth - 1)
    /\ ever = {}
    /\ dup = FALSE
    /\ other = Fresh

\* An exception leaves check_and_push and is caught by main's handler.
Raise(what) ==
    /\ pc' = "Failed"
    /\ fault' = what

\* ----------------------------------------------------------- get_last_tid
GetLastTid ==
    /\ pc = "Start"
    /\ \/ \* bot.get_chat raises
          /\ Raise("get_chat")
          /\ UNCHANGED <<chat_description, last_tid>>
       \/ \* chat.description is None: re.findall raises TypeError
          /\ description.null
          /\ Raise("no_description")
          /\ UNCHANGED <<chat_description, last_tid>>
       \/ /\ ~description.null
          /\ chat_description' = description.text
          /\ last_tid' = FirstTidOrSentinel(description.text)
          /\ pc' = "Fetching"
          /\ UNCHANGED fault
    /\ UNCHANGED <<feed, description, run, pg, depth, acc, threads, idx,
                   thread, delivered, requests, written, prev,
                   start_description, write_failed, first_within, ever,
                   dup, other>>

\* ------------------------------------------- inline_get_gradapp_threads
ReturnAllPastDepth(t, d) == t <= 0 \/ d > MaxDepth

\* "return all current threads": last_tid <= 0 or depth >= 5
ReturnAll(t, d) == t <= 0 \/ d >= MaxDepth

\* "this list contains all unpushed threads": threads[-1]['tid'] <= last_tid
Crossed(ths, t) == Last(ths) <= t

\* The comparison lets the watermark's own thread through.
NewerOrEqual(ths, t) == SelectSeq(ths, LAMBDA x : x >= t)

\* [t for t in threads if t['tid'] > last_tid]
NewerThan(ths, t) == SelectSeq(ths, LAMBDA x : x > t)

\* The for loop's next position once i threads of ths are behind it.
LoopPc(ths, i) == IF i < Len(ths) THEN "Enrich" ELSE "Done"

\* get_gradapp_threads returns: the for loop of check_and_push starts.
Return(result) ==
    /\ threads' = Reversed(result)
    /\ idx' = 0
    /\ pc' = LoopPc(result, 0)
    /\ UNCHANGED <<pg, depth, acc, fault>>

\* An empty page is taken for "no new threads".
EmptyPageReturnsNothing(page, t, d) ==
    IF Len(page) = 0 THEN "all"
    ELSE IF ReturnAll(t, d) THEN "all"
    ELSE IF Crossed(page, t) THEN "newer"
    ELSE "more"

\* An empty page after the first ends the listing: what was gathered is
\* returned.
EmptyPageEndsListing(page, t, d) ==
    IF Len(page) = 0 THEN (IF d > 1 THEN "all" ELSE "raise")
    ELSE IF ReturnAll(t, d) THEN "all"
    ELSE IF Crossed(page, t) THEN "newer"
    ELSE "more"

\* What one call does with the page it received: the assertion on the
\* page's length, then the three returns.
PageOutcome(page, t, d) ==
    IF Len(page) = 0 THEN "raise"
    ELSE IF ReturnAll(t, d) THEN "all"
    ELSE IF Crossed(page, t) THEN "newer"
    ELSE "more"

\* One call of inline_get_gradapp_threads(pg, depth): one listing request.
\* acc holds the pages of the calls that wait for this one.
FetchPage ==
    /\ pc = "Fetching"
    /\ requests' = Append(requests, pg)
    /\ \/ \* raise_for_status raises, or errno is not 0
          /\ Raise("listing")
          /\ UNCHANGED <<pg, depth, acc, threads, idx>>
       \/ LET page == Page(feed, pg)
              outcome == PageOutcome(page, last_tid, depth)
          IN  CASE outcome = "raise" ->
                     \* assert len(data['threads']) > 0
                     /\ Raise("empty_page")
                     /\ UNCHANGED <<pg, depth, acc, threads, idx>>
                [] outcome = "all" -> Return(acc \o page)
                [] outcome = "newer" -> Return(acc \o NewerThan(page, last_tid))
                [] outcome = "more" ->
                     /\ acc' = acc \o page
                     /\ pg' = pg + 1
                     /\ depth' = depth + 1
                     /\ UNCHANGED <<pc, fault, threads, idx>>
    /\ UNCHANGED <<feed, description, run, chat_description, last_tid,
                   thread, delivered, written, prev, start_description,
                   write_failed, first_within, ever, dup, other>>

\* --------------------------------------------------- get_thread_details
\* Without the decorator the exception leaves get_thread_details.
DetailsErrorPropagates == Raise("details")

\* no_exception(v={}): the exception is logged, {} is returned and the loop
\* body goes on with the thread.
NoException ==
    /\ pc' = "Write"
    /\ UNCHANGED fault

\* The generator of get_gradapp_threads_with_details yields the next thread:
\* get_thread_details returns the details, or {} (no_exception) when the
\* request, the errno assertion or the translation raises.
Enrich ==
    /\ pc = "Enrich"
    /\ idx' = idx + 1
    /\ \/ \* the details are fetched and translated
          /\ thread' = [tid |-> threads[idx + 1], details |-> "full"]
          /\ pc' = "Write"
          /\ UNCHANGED fault
       \/ \* raise_for_status, the errno assertion or the translation raises
          /\ thread' = [tid |-> threads[idx + 1], details |-> "empty"]
          /\ NoException
    /\ UNCHANGED <<feed, description, run, chat_description, last_tid, pg,
                   depth, acc, threads, delivered, requests, written,
                   prev, start_description, write_failed, first_within,
                   ever, dup, other>>

\* ----------------------------------------------------------- set_last_tid
\* The guard is missing: the write goes to the channel whatever is cached.
NeverRefuses(text) == FALSE

\* "if not self.chat_description: return False"
NothingCached(text) == text = <<>>

\* The failed write is ignored and the thread is broadcast all the same.
IgnoresFailedWrite == "Deliver"

\* The failed write is tried again until it succeeds.
RetriesFailedWrite == "Write"

\* "if not await self.set_last_tid(...): break": the loop is left.
AfterFailedWrite == "Aborted"

\* set_last_tid(thread['tid']) and the "break" of check_and_push.
SetLastTid ==
    /\ pc = "Write"
    /\ IF NothingCached(chat_description)
       THEN /\ pc' = AfterFailedWrite
            /\ write_failed' = TRUE
            /\ UNCHANGED <<chat_description, description, written, fault>>
       ELSE /\ chat_description' = Sub(chat_description, thread.tid)
            /\ \/ \* set_chat_description returns True
                  /\ description' = Desc(chat_description')
                  /\ written' = Append(written, thread.tid)
                  /\ pc' = "Deliver"
                  /\ UNCHANGED <<fault, write_failed>>
               \/ \* set_chat_description returns False
                  /\ pc' = AfterFailedWrite
                  /\ write_failed' = TRUE
                  /\ fault' = "persist_false"
                  /\ UNCHANGED <<description, written>>
               \/ \* set_chat_description raises
                  /\ Raise("persist_raise")
                  /\ UNCHANGED <<description, written, write_failed>>
    /\ UNCHANGED <<feed, run, last_tid, pg, depth, acc, threads, idx, thread,
                   delivered, requests, prev, start_description,
                   first_within, ever, dup, other>>

\* -------------------------------------------------------------- broadcast
\* broadcast(message) and the end of the loop body.  ever and dup observe the
\* broadcasts of all invocations; they are kept only where logged is TRUE.
BroadcastCall(logged) ==
    /\ pc = "Deliver"
    /\ \/ \* send_message returns
          /\ delivered' = Append(delivered, thread.tid)
          /\ ever' = (IF logged THEN ever \cup {thread.tid} ELSE ever)
          /\ dup' = (IF logged THEN (dup \/ thread.tid \in ever) ELSE dup)
          /\ pc' = LoopPc(threads, idx)
          /\ UNCHANGED fault
       \/ \* send_message raises
          /\ Raise("send")
          /\ UNCHANGED <<delivered, ever, dup>>
    /\ UNCHANGED <<feed, description, run, chat_description, last_tid, pg,
                   depth, acc, threads, idx, thread, requests, written, prev,
                   start_description, write_failed, first_within, other>>

Broadcast == BroadcastCall(FALSE)

BroadcastLogged == BroadcastCall(TRUE)

\* ------------------------------------------------------------------- main
\* The scheduler invokes main again: a new GradAppBot, the same channel and
\* the same feed.
Main ==
    /\ pc \in Terminal
    /\ run < MaxRuns
    /\ run' = run + 1
    /\ prev' = [pc |-> pc, fault |-> fault, tid |-> thread.tid,
                 delivered |-> Len(delivered)]
    /\ pc' = "Start"
    /\ chat_description' = <<>>
    /\ last_tid' = 0
    /\ pg' = 1
    /\ depth' = 1
    /\ acc' = <<>>
    /\ threads' = <<>>
    /\ idx' = 0
    /\ thread' = NoThread
    /\ delivered' = <<>>
    /\ requests' = <<>>
    /\ written' = <<>>
    /\ fault' = "none"
    /\ start_description' = description
    /\ write_failed' = FALSE
    /\ UNCHANGED <<feed, description, first_within, ever, dup, other>>

Next ==
    \/ GetLastTid
    \/ FetchPage
    \/ Enrich
    \/ SetLastTid
    \/ Broadcast
    \/ Main

Spec == Init /\ [][Next]_vars

\* One invocation of main: check_and_push from its entry to its end.
NextRun ==
    \/ GetLastTid
    \/ FetchPage
    \/ Enrich
    \/ SetLastTid
    \/ Broadcast

\* check_and_push is one sequential coroutine: when a call returns or raises,
\* the statement after it runs.
LiveSpec ==
    /\ Init
    /\ [][NextRun]_vars
    /\ WF_vars(GetLastTid)
    /\ WF_vars(FetchPage)
    /\ WF_vars(Enrich)
    /\ WF_vars(SetLastTid)
    /\ WF_vars(Broadcast)

\* ------------------------------------------------ two invocations at once
\* The locals of the invocation that is running.
Me ==
    [pc |-> pc, chat_description |-> chat_description, last_tid |-> last_tid,
     pg |-> pg, depth |-> depth, acc |-> acc, threads |-> threads,
     idx |-> idx, thread |-> thread, delivered |-> delivered,
     requests |-> requests, written |-> written, fault |-> fault,
     write_failed |-> write_failed]

\* Two processes run main against the same channel and feed with nothing to
\* exclude each other: between two calls of one, the other takes its turn.
Switch ==
    /\ other.pc \notin Terminal
    /\ other' = Me
    /\ pc' = other.pc
    /\ chat_description' = other.chat_description
    /\ last_tid' = other.last_tid
    /\ pg' = other.pg
    /\ depth' = other.depth
    /\ acc' = other.acc
    /\ threads' = other.threads
    /\ idx' = other.idx
    /\ thread' = other.thread
    /\ delivered' = other.delivered
    /\ requests' = other.requests
    /\ written' = other.written
    /\ fault' = other.fault
    /\ write_failed' = other.write_failed
    /\ UNCHANGED <<feed, description, run, prev, start_description,
                   first_within, ever, dup>>

InitConc ==
    /\ Init
    /\ Len(feed) <= MaxSmallFeed
    /\ Watermark(description) <= MaxSmallFeed

NextConc ==
    \/ GetLastTid
    \/ FetchPage
    \/ Enrich
    \/ SetLastTid
    \/ BroadcastLogged
    \/ Switch

ConcSpec == InitConc /\ [][NextConc]_vars

\* ------------------------------------------------- runs that stop anywhere
\* The process is killed between two steps of check_and_push.
Crash ==
    /\ pc \notin Terminal
    /\ pc' = "Failed"
    /\ fault' = "killed"
    /\ UNCHANGED <<feed, description, run, chat_description, last_tid, pg,
                   depth, acc, threads, idx, thread, delivered, requests,
                   written, prev, start_description, write_failed,
                   first_within, ever, dup, other>>

NextRuns ==
    \/ GetLastTid
    \/ FetchPage
    \/ Enrich
    \/ SetLastTid
    \/ BroadcastLogged
    \/ Crash
    \/ Main

\* The channel holds one known watermark, anywhere in the feed or beyond it.
InitRuns ==
    /\ Init
    /\ description \in {Desc(<<Text, Pat(w), Text>>) : w \in 1..(MaxTid + 1)}

RunsSpec == InitRuns /\ [][NextRuns]_vars

\* ------------------------------------------------------ a feed that grows
\* A new thread is posted while a fetch is between two listing requests: it
\* becomes the head of the listing and every other thread moves down by one.
Post ==
    /\ pc = "Fetching"
    /\ requests # <<>>
    /\ Len(feed) <= 2 * PageSize
    /\ feed' = <<(IF feed = <<>> THEN 1 ELSE feed[1] + 1)>> \o feed
    /\ UNCHANGED <<description, run, pc, chat_description, last_tid, pg,
                   depth, acc, threads, idx, thread, delivered, requests,
                   written, fault, prev, start_description, write_failed,
                   first_within, ever, dup, other>>

InitFeed ==
    /\ Init
    /\ Len(feed) <= 2 * PageSize

NextFeed ==
    \/ GetLastTid
    \/ FetchPage
    \/ Enrich
    \/ SetLastTid
    \/ Broadcast
    \/ Post

FeedSpec == InitFeed /\ [][NextFeed]_vars

\* ----------------------------------------------- set_last_tid, called first
\* A caller invokes set_last_tid(t) on a GradAppBot whose get_last_tid has
\* not been called: chat_description is still the '' of __init__.
WriteBeforeRead ==
    /\ pc = "Start"
    /\ \E t \in 0..MaxTid : thread' = [tid |-> t, details |-> "none"]
    /\ pc' = "Write"
    /\ UNCHANGED <<feed, description, run, chat_description, last_tid, pg,
                   depth, acc, threads, idx, delivered, requests, written,
                   fault, prev, start_description, write_failed,
                   first_within, ever, dup, other>>

\* The methods of GradAppBot called by a client: check_and_push, or
\* set_last_tid on its own.
NextApi ==
    \/ WriteBeforeRead
    \/ GetLastTid
    \/ FetchPage
    \/ Enrich
    \/ SetLastTid
    \/ Broadcast

SpecApi == Init /\ [][NextApi]_vars

\* ================================================================ claims
\* The fetch of this run returned: the for loop was entered.
Fetched ==
    \/ pc \in {"Enrich", "Write", "Deliver", "Done", "Aborted"}
    \/ pc = "Failed" /\ fault \in {"persist_raise", "send"}

ThreadTids == {threads[i] : i \in 1..Len(threads)}

\* C1: in every state, a watermark the channel holds through a write of this
\* run is the tid of a thread whose delivery has already succeeded (Deliver,
\* then AdvanceWatermark).
C1_DeliverBeforeAdvance ==
    (written # <<>> /\ Watermark(description) = Last(written))
        => Last(written) \in DeliveredTids

\* C2: when the delivery of thread k fails after earlier threads were
\* delivered, the persisted watermark is the tid of the thread delivered just
\* before k, and the next run's fetch over the unchanged feed returns k again.
\* Stated for the channels whose description holds the pattern.
C2_FailedDeliveryIsRefetched ==
    /\ (pc = "Failed" /\ fault = "send" /\ delivered # <<>>
            /\ FindAll(chat_description) # <<>>)
          => Watermark(description) = Last(delivered)
    /\ (prev.fault = "send" /\ prev.delivered > 0 /\ Fetched
            /\ FindAll(chat_description) # <<>>)
          => prev.tid \in ThreadTids

\* C3: no step lowers the watermark the channel holds.
C3_WatermarkNeverDecreases ==
    [][Watermark(description') >= Watermark(description)]_vars

\* C4: after a run that ends in Done with at least one delivery, a read of
\* the channel yields the tid of the run's last delivered thread.
C4_WatermarkIsLastDelivered ==
    (pc = "Done" /\ delivered # <<>>)
        => Watermark(description) = Last(delivered)

\* C5: a run started from what a completed run left, over the unchanged
\* feed, delivers nothing.
C5_SecondRunDeliversNothing ==
    (run > 1 /\ prev.pc = "Done") => delivered = <<>>

\* C6: the deliveries of a run are in strictly ascending tid order.
C6_AscendingDelivery ==
    \A i, j \in 1..Len(delivered) :
        i < j => delivered[i] < delivered[j]

\* A run that fetched more than one page and delivered threads of two pages.
C6_Witness ==
    /\ Len(requests) >= 2
    /\ Len(delivered) > PageSize

\* C7: with a known watermark (> 0) the fetch returns only threads whose tid
\* is strictly greater than the watermark.
C7_FetchedAreNewer ==
    (Fetched /\ last_tid > 0) => \A t \in ThreadTids : t > last_tid

\* C8: a fetch requests the pages 1, 2, .. in order, each once, and at most
\* MaxDepth of them.
C8_DepthBound ==
    /\ Len(requests) <= MaxDepth
    /\ \A i \in 1..Len(requests) : requests[i] = i

\* A fetch that went to the lookback depth and stopped there, with a page
\* beyond it in the feed and the watermark older than the whole feed.
C8_Witness ==
    /\ Fetched
    /\ Len(requests) = MaxDepth
    /\ Len(feed) > MaxDepth * PageSize
    /\ last_tid > 0
    /\ last_tid < Last(feed)

\* C9: when the read yields the sentinel -1 and no collaborator fails, the
\* run requests page 1 only and delivers every thread of it, oldest first.
C9_UnknownWatermarkDeliversPageOne ==
    (pc \in Terminal /\ fault = "none" /\ last_tid = -1)
        => /\ requests = <<1>>
           /\ delivered = Reversed(Page(feed, 1))

\* C10: unavailable metadata (get_chat fails, or there is no description)
\* does not end the run: it goes on to the fetch with an unknown watermark.
C10_UnavailableMetadataStillFetches ==
    pc = "Failed" => fault \notin {"get_chat", "no_description"}

\* C11: when the first listing page is empty, or its request fails or
\* carries a non-zero errno, the fetch raises: main's handler ends the run
\* with nothing delivered and the channel's description as the run found it.
C11_EmptyFirstPageFailsTheRun ==
    (requests # <<>>
        /\ (Page(feed, 1) = <<>> \/ (fault = "listing" /\ requests = <<1>>)))
        => /\ pc = "Failed"
           /\ fault \in {"listing", "empty_page"}
           /\ requests = <<1>>
           /\ delivered = <<>>
           /\ written = <<>>
           /\ description = start_description

\* The first page came back empty and the run ended in main's handler.
C11_Witness ==
    /\ feed = <<>>
    /\ pc = "Failed"
    /\ fault = "empty_page"
    /\ requests = <<1>>

\* The threads the loop has not reached, the current one included when its
\* write failed.
NotProcessed == {threads[i] : i \in idx..Len(threads)}

\* C12: once set_last_tid has returned False for a thread, the run is over:
\* that thread and every later one are neither written nor broadcast.
C12_FailedWriteHaltsTheRun ==
    write_failed
        => /\ pc = "Aborted"
           /\ thread.tid = threads[idx]
           /\ \A t \in NotProcessed : t \notin DeliveredTids
           /\ \A t \in NotProcessed :
                 \A i \in 1..Len(written) : written[i] # t
           /\ Len(delivered) = idx - 1
           /\ Len(written) = idx - 1

\* The write of the second thread failed with later threads still to come.
C12_Witness ==
    /\ write_failed
    /\ fault = "persist_false"
    /\ Len(delivered) >= 1
    /\ idx < Len(threads)

\* C13: a set_last_tid that finds no cached description returns False
\* without calling set_chat_description: the channel's description stays.
C13_WriteWithoutReadIsRefused ==
    [][(pc = "Write" /\ chat_description = <<>>)
          => /\ write_failed'
             /\ pc' = "Aborted"
             /\ description' = description
             /\ chat_description' = chat_description
             /\ written' = written
             /\ fault' = fault]_vars

\* set_last_tid was called before any get_last_tid, on a channel whose
\* description holds a watermark, and returned False.
C13_Witness ==
    /\ write_failed
    /\ requests = <<>>
    /\ last_tid = 0
    /\ thread.tid > 0
    /\ Watermark(description) > 0
    /\ description = start_description

\* C14: a thread whose details could not be fetched goes on with empty
\* details: the run is not ended by it, the thread is written and broadcast
\* like any other, and the loop moves on to the threads after it.
C14_DetailFailureDoesNotAbort ==
    thread.details = "empty"
        => /\ pc \in {"Write", "Deliver", "Enrich", "Done", "Aborted", "Failed"}
           /\ pc = "Failed" => fault \in {"persist_raise", "send"}
           /\ pc = "Aborted" => write_failed
           /\ pc \in {"Deliver", "Enrich", "Done"} => Last(written) = thread.tid
           /\ pc \in {"Enrich", "Done"} =>
                 /\ Last(delivered) = thread.tid
                 /\ pc = LoopPc(threads, idx)

\* A thread with empty details has been written and broadcast, and the loop
\* is at the thread after it.
C14_Witness ==
    /\ thread.details = "empty"
    /\ pc = "Enrich"
    /\ delivered # <<>>
    /\ Last(delivered) = thread.tid
    /\ idx < Len(threads)

\* C15: every run ends: from any position of check_and_push the run reaches
\* Done, Aborted or main's exception handler (Failed).
C15_EveryRunTerminates ==
    (pc \notin Terminal) ~> (pc \in Terminal)

\* The longest run, over all the pages of the lookback depth, has ended.
C15_Witness ==
    /\ pc = "Done"
    /\ Len(requests) = MaxDepth
    /\ Len(delivered) >= (MaxDepth - 1) * PageSize + 1

FeedTids == {feed[i] : i \in 1..Len(feed)}

OtherDeliveredTids == {other.delivered[i] : i \in 1..Len(other.delivered)}

\* C16: two overlapping invocations that read the same known watermark and
\* both end in Done have each broadcast every thread above that watermark:
\* the writes of one do not keep the other from delivering the same threads.
C16_OverlappingRunsDeliverTheSame ==
    (pc = "Done" /\ other.pc = "Done" /\ last_tid = other.last_tid
        /\ last_tid > 0 /\ Len(requests) < MaxDepth)
        => /\ delivered = other.delivered
           /\ DeliveredTids = {t \in FeedTids : t > last_tid}

\* The lost update: a thread broadcast by both invocations, and a watermark
\* write of one that put a lower tid over the higher one the other had
\* persisted.
C16_Witness ==
    /\ dup
    /\ DeliveredTids \cap OtherDeliveredTids # {}
    /\ written # <<>>
    /\ other.written # <<>>
    /\ Watermark(description) = Last(written)
    /\ Last(written) < Last(other.written)

\* C17: over runs that may stop at any step, started from a watermark > 0
\* that lies within the first four pages of the unchanged feed, no tid is
\* broadcast more than once.
C17_AtMostOnceAcrossRuns ==
    first_within => ~dup

\* A run that was killed after some broadcasts is followed by a run that
\* broadcasts further threads.
C17_Witness ==
    /\ first_within
    /\ run > 1
    /\ prev.fault = "killed"
    /\ prev.delivered > 0
    /\ delivered # <<>>
    /\ Len(requests) > 1

\* C18: within one run no tid is broadcast twice, also when threads are
\* posted between two listing requests of the run.
C18_NoDuplicateInRun ==
    \A i, j \in 1..Len(delivered) :
        i # j => delivered[i] # delivered[j]

\* C19: every listing request of a run is made before its first watermark
\* write and its first broadcast, and a listing request that fails at any
\* depth (HTTP error, errno, or an empty page) fails the whole fetch: the
\* pages gathered so far never reach the loop, nothing is broadcast and the
\* stored description is the one the run started with.
C19_ListingFailureDiscardsEverything ==
    /\ pc = "Fetching"
           => /\ written = <<>>
              /\ delivered = <<>>
              /\ description = start_description
    /\ (requests # <<>>
           /\ (Page(feed, Last(requests)) = <<>>
                  \/ fault \in {"listing", "empty_page"}))
           => /\ pc = "Failed"
              /\ fault \in {"listing", "empty_page"}
              /\ threads = <<>>
              /\ delivered = <<>>
              /\ written = <<>>
              /\ description = start_description

C19_Witness ==
    /\ pc = "Failed"
    /\ fault = "empty_page"
    /\ Len(requests) > 2
    /\ acc # <<>>
    /\ Watermark(description) > 0

====
